---- MODULE Spec2Model ----
(***************************************************************************)
(* Model of the comfy_config helper scripts:                               *)
(*   comfy_config.py, _utils/setup_symlinks.py, _utils/manager_utils.py    *)
(* and the _utils package.                                                 *)
(*                                                                         *)
(* The filesystem is a function from the absolute paths at which an entry  *)
(* is physically stored to that entry: a directory, a regular file or a    *)
(* symbolic link holding a target path.  A path is a sequence of names;    *)
(* <<>> is the root directory.  Paths handed to the scripts are absolute   *)
(* and hold no "~", "." or "..", so os.path.expanduser leaves them as they *)
(* are.                                                                    *)
(***************************************************************************)
EXTENDS Naturals, Sequences, FiniteSets, TLC

\* Links followed in one path resolution before the kernel gives up (ELOOP):
\* 40 on Linux.
MaxSymlinkDepth == 40

---------------------------------------------------------------------------
(* Filesystem entries *)

Dir == [kind |-> "dir", to |-> <<>>, data |-> ""]

File(d) == [kind |-> "file", to |-> <<>>, data |-> d]

Link(p) == [kind |-> "link", to |-> p, data |-> ""]

Parent(p) == IF p = <<>> THEN <<>> ELSE SubSeq(p, 1, Len(p) - 1)

IsPrefix(p, q) == Len(p) <= Len(q) /\ SubSeq(q, 1, Len(p)) = p

(* Path resolution as the kernel does it: walk the names from a resolved   *)
(* directory `cur`, following a link in the middle of the path always and  *)
(* a link in last position only when `follow`.  st = "ok" gives the        *)
(* physical place of the last name, which may hold no entry.  `fuel` is    *)
(* the number of links that may still be followed.                         *)
(* `seen` holds the links followed so far with the names that remained    *)
(* (tl); at a link, those with more names than remain now have had their   *)
(* names reached and are dropped.  Coming again to a link of `seen`, its   *)
(* names still waiting, repeats the same steps for ever: the links run out *)
(* and the end is ELOOP, which is given at once.                           *)
RECURSIVE Walk(_, _, _, _, _, _)
Walk(f, cur, rest, follow, fuel, seen) ==
  IF rest = <<>> THEN [st |-> "ok", at |-> cur]
  ELSE LET nxt == Append(cur, Head(rest))
           tl  == Tail(rest)
       IN CASE nxt \in DOMAIN f /\ f[nxt].kind = "dir" ->
                 Walk(f, nxt, tl, follow, fuel, seen)
            [] /\ nxt \in DOMAIN f /\ f[nxt].kind = "link"
               /\ (tl # <<>> \/ follow) /\ fuel > 0
               /\ \A e \in seen : e.at # nxt \/ Len(e.tl) > Len(tl) ->
                 Walk(f, <<>>, f[nxt].to \o tl, follow, fuel - 1,
                      {e \in seen : Len(e.tl) <= Len(tl)}
                        \cup {[at |-> nxt, tl |-> tl]})
            [] OTHER ->
                 IF nxt \notin DOMAIN f
                 THEN [st |-> IF tl = <<>> THEN "ok" ELSE "ENOENT", at |-> nxt]
                 ELSE IF f[nxt].kind = "file"
                 THEN [st |-> IF tl = <<>> THEN "ok" ELSE "ENOTDIR", at |-> nxt]
                 ELSE [st |-> IF tl = <<>> /\ ~follow THEN "ok" ELSE "ELOOP",
                       at |-> nxt]

\* os.stat: the entry a path resolves to, links followed.
Stat(f, p) == Walk(f, <<>>, p, TRUE, MaxSymlinkDepth, {})

\* os.lstat: the entry stored under the path's last name.
Lstat(f, p) == Walk(f, <<>>, p, FALSE, MaxSymlinkDepth, {})

Present(f, w) == w.st = "ok" /\ (w.at = <<>> \/ w.at \in DOMAIN f)

KindAt(f, w) ==
  IF ~Present(f, w) THEN "none"
  ELSE IF w.at = <<>> THEN "dir" ELSE f[w.at].kind

\* Path.exists(): stat succeeds (ENOENT, ENOTDIR and ELOOP give False).
Exists(f, p) == Present(f, Stat(f, p))

\* Path.is_dir()
IsDir(f, p) == KindAt(f, Stat(f, p)) = "dir"

\* Path.is_file()
IsFile(f, p) == KindAt(f, Stat(f, p)) = "file"

\* Path.is_symlink()
IsSymlink(f, p) == KindAt(f, Lstat(f, p)) = "link"

\* os.path.lexists: any entry under the last name, a dangling link included.
LExists(f, p) == Present(f, Lstat(f, p))

\* The path a symlink at p holds (os.readlink), <<>> when p is no symlink.
ReadLink(f, p) == IF IsSymlink(f, p) THEN f[Lstat(f, p).at].to ELSE <<>>

\* The content of the regular file p resolves to.
ReadFile(f, p) == IF IsFile(f, p) THEN f[Stat(f, p).at].data ELSE ""

(* The result of a mutating call: the new filesystem and the exception     *)
(* the call raised ("" when it returned).                                  *)
Ok(f) == [fs |-> f, err |-> ""]

Raise(f, e) == [fs |-> f, err |-> e]

\* The errno of creating an entry under p's last name, "" when it can be made.
CreateErr(f, p) ==
  LET w == Lstat(f, p)
      d == Stat(f, Parent(p))
  IN IF p = <<>> THEN "FileExistsError"
     ELSE IF d.st = "ENOTDIR" \/ KindAt(f, d) = "file" THEN "NotADirectoryError"
     ELSE IF d.st = "ELOOP" THEN "OSError"
     ELSE IF KindAt(f, d) # "dir" THEN "FileNotFoundError"
     ELSE IF Present(f, w) THEN "FileExistsError"
     ELSE ""

\* os.mkdir(p)
OsMkdir(f, p) ==
  LET e == CreateErr(f, p)
  IN IF e # "" THEN Raise(f, e)
     ELSE Ok(f @@ (Lstat(f, p).at :> Dir))

\* Path.mkdir(parents=True, exist_ok=True)
RECURSIVE Mkdir(_, _)
Mkdir(f, p) ==
  LET r == OsMkdir(f, p)
  IN IF r.err = "" THEN r
     ELSE IF r.err = "FileNotFoundError"
          THEN IF p = <<>> THEN r
               ELSE LET up == Mkdir(f, Parent(p))
                    IN IF up.err # "" THEN up
                       ELSE LET again == OsMkdir(up.fs, p)
                            IN IF again.err = "" \/ IsDir(up.fs, p)
                               THEN Ok(again.fs) ELSE again
     ELSE IF IsDir(f, p) THEN Ok(f) ELSE r

\* The exception class of a failed path resolution.
StatErr(w) ==
  IF w.st = "ENOTDIR" THEN "NotADirectoryError"
  ELSE IF w.st = "ELOOP" THEN "OSError"
  ELSE "FileNotFoundError"

(* shutil.rmtree(p): p must be a real directory; it goes with all below it. *)
(* rmtree lstats p and then opens it, links followed: a link that leads    *)
(* nowhere fails as the open does, a link that leads somewhere is refused. *)
(* The root is emptied before its own removal fails.                       *)
Rmtree(f, p) ==
  LET w == Lstat(f, p)
      s == Stat(f, p)
  IN IF KindAt(f, w) = "none" THEN Raise(f, StatErr(w))
     ELSE IF KindAt(f, w) = "link"
          THEN IF Present(f, s) THEN Raise(f, "OSError")
               ELSE Raise(f, StatErr(s))
     ELSE IF KindAt(f, w) = "file" THEN Raise(f, "NotADirectoryError")
     ELSE IF w.at = <<>> THEN Raise([q \in {} |-> f[q]], "OSError")
     ELSE Ok([q \in {x \in DOMAIN f : ~IsPrefix(w.at, x)} |-> f[q]])

\* Path.unlink(): removes a file or a link, never a directory.
Unlink(f, p) ==
  LET w == Lstat(f, p)
  IN IF KindAt(f, w) = "none" THEN Raise(f, StatErr(w))
     ELSE IF KindAt(f, w) = "dir" THEN Raise(f, "IsADirectoryError")
     ELSE Ok([q \in DOMAIN f \ {w.at} |-> f[q]])

\* Path.symlink_to(source): a link at p holding the source path as given.
SymlinkTo(f, p, source) ==
  LET e == CreateErr(f, p)
  IN IF e # "" THEN Raise(f, e)
     ELSE Ok(f @@ (Lstat(f, p).at :> Link(source)))

Last(p) == p[Len(p)]

(* shutil.copy2(src, dst): into dst/<name of src> when dst is a directory; *)
(* the content of src is written to the file dst resolves to, which is     *)
(* created when absent.                                                    *)
CopyFile(f, src, dst0) ==
  LET dst == IF IsDir(f, dst0) THEN dst0 \o <<Last(src)>> ELSE dst0
      sw == Stat(f, src)
      dw == Stat(f, dst)
  IN IF Present(f, sw) /\ Present(f, dw) /\ sw.at = dw.at
     THEN Raise(f, "SameFileError")
     ELSE IF ~Present(f, sw) THEN Raise(f, StatErr(sw))
     ELSE IF KindAt(f, sw) = "dir" THEN Raise(f, "IsADirectoryError")
     ELSE IF dw.st # "ok" THEN Raise(f, StatErr(dw))
     ELSE IF KindAt(f, dw) = "dir" THEN Raise(f, "IsADirectoryError")
     ELSE Ok([q \in DOMAIN f \cup {dw.at} |->
                IF q = dw.at THEN File(f[sw.at].data) ELSE f[q]])

\* The file names in use that end in ".json".
JsonNames ==
  {"comfy.settings.json", "jnodes.settings.json", "snap.json", "old.json",
   "other.json", "missing.json"}

\* Path.glob('*.json'): the names in the directory d that end in ".json".
GlobJson(f, d) ==
  IF ~IsDir(f, d) THEN {}
  ELSE {n \in JsonNames : Append(Stat(f, d).at, n) \in DOMAIN f}

---------------------------------------------------------------------------
(* _utils/setup_symlinks.py *)

\* Path.home(), the directory "~" stands for.
Home == <<"home">>

\* os.path.expanduser: a leading "~" becomes the home directory.
ExpandUser(p) == IF p # <<>> /\ Head(p) = "~" THEN Home \o Tail(p) ELSE p

(* A line typed at a prompt: the path typed (<<>> when none) and whether   *)
(* blanks surround it.  str.strip() drops the blanks.                      *)
Strip(line) == line.text

\* get_user_path with the bug of falling back to the home directory
\* instead of skipping.
get_user_path_NeverSkips(default_path, line) ==
  LET response == Strip(line)
  IN IF response # <<>> THEN ExpandUser(response)
     ELSE IF default_path # <<>> THEN ExpandUser(default_path)
     ELSE Home

(* get_user_path: the typed path if any, else the default if any, else     *)
(* None (<<>>).  A default of None or "" is <<>>.                          *)
get_user_path(default_path, line) ==
  LET response == Strip(line)
  IN IF default_path # <<>>
     THEN IF response # <<>> THEN ExpandUser(response)
                             ELSE ExpandUser(default_path)
     ELSE IF response # <<>> THEN ExpandUser(response)
                             ELSE <<>>

\* The target of a folder name in the workspace.
TargetOf(comfy_path, folder_name) ==
  IF folder_name = "workflows"
  THEN comfy_path \o <<"user", "default", "workflows">>
  ELSE IF folder_name = "snapshots"
  THEN comfy_path \o <<"user", "default", "ComfyUI-Manager", "snapshots">>
  ELSE comfy_path \o <<folder_name>>

(* What one entry of a symlink operation did: the filesystem it left, the  *)
(* exception it raised and in which stage, whether it warned, and whether  *)
(* it called symlink_to and, if so, whether an entry was stored at the     *)
(* target at that moment.                                                  *)
StepRes(r, stage, warned, linked, occupied) ==
  [fs |-> r.fs, err |-> r.err, stage |-> stage, warned |-> warned,
   linked |-> linked, occupied |-> occupied]

\* The removal with the bug of looking only at target.exists(), which a
\* dangling link does not pass.
RemoveExisting_NoSymlinkCheck(f, target) ==
  IF Exists(f, target)
  THEN IF IsDir(f, target) /\ ~IsSymlink(f, target)
       THEN Rmtree(f, target)
       ELSE Unlink(f, target)
  ELSE Ok(f)

(* "Handle existing target": a real directory is removed with all below    *)
(* it, a file or a link (dangling or not) is unlinked.                     *)
RemoveExisting(f, target) ==
  IF Exists(f, target) \/ IsSymlink(f, target)
  THEN IF IsDir(f, target) /\ ~IsSymlink(f, target)
       THEN Rmtree(f, target)
       ELSE Unlink(f, target)
  ELSE Ok(f)

\* The removal of an existing settings file: always an unlink.
RemoveExistingFile(f, target_file) ==
  IF Exists(f, target_file) \/ IsSymlink(f, target_file)
  THEN Unlink(f, target_file)
  ELSE Ok(f)

\* target.symlink_to(source), with what was at the target when it was called.
MakeLink(f, target, source, stage) ==
  StepRes(SymlinkTo(f, target, source), stage, FALSE, TRUE, LExists(f, target))

\* setup_symlinks, second loop: the body for one collected folder.
LinkFolder(f, comfy_path, folder_name, source) ==
  LET target == TargetOf(comfy_path, folder_name)
      a == Mkdir(f, Parent(target))
      b == IF Exists(a.fs, source) THEN Ok(a.fs) ELSE Mkdir(a.fs, source)
      c == RemoveExisting(b.fs, target)
  IN IF a.err # "" THEN StepRes(a, "parents", FALSE, FALSE, FALSE)
     ELSE IF b.err # "" THEN StepRes(b, "source", FALSE, FALSE, FALSE)
     ELSE IF c.err # "" THEN StepRes(c, "remove", FALSE, FALSE, FALSE)
     ELSE MakeLink(c.fs, target, source, "link")

\* _setup_directory_symlinks: the loop body for one directory name.
DirectoryEntry(f, comfy_path, project_root, dir_name) ==
  LET target == comfy_path \o <<dir_name>>
      source == project_root \o <<dir_name>>
      c == RemoveExisting(f, target)
  IN IF c.err # "" THEN StepRes(c, "remove", FALSE, FALSE, FALSE)
     ELSE IF IsDir(c.fs, source) THEN MakeLink(c.fs, target, source, "link")
     ELSE StepRes(c, "", TRUE, FALSE, FALSE)

\* _setup_settings_symlinks: the workflows directory.
WorkflowsEntry(f, workflows_target, workflows_source) ==
  IF IsDir(f, workflows_source)
  THEN LET c == RemoveExisting(f, workflows_target)
       IN IF c.err # "" THEN StepRes(c, "remove", FALSE, FALSE, FALSE)
          ELSE MakeLink(c.fs, workflows_target, workflows_source, "link")
  ELSE StepRes(Ok(f), "", TRUE, FALSE, FALSE)

\* _setup_settings_symlinks: the loop body for one settings file.
SettingsFileEntry(f, target_file, source_file) ==
  IF IsFile(f, source_file)
  THEN LET c == RemoveExistingFile(f, target_file)
       IN IF c.err # "" THEN StepRes(c, "remove", FALSE, FALSE, FALSE)
          ELSE MakeLink(c.fs, target_file, source_file, "link")
  ELSE StepRes(Ok(f), "", TRUE, FALSE, FALSE)

settings_files == <<"comfy.settings.json", "jnodes.settings.json">>

---------------------------------------------------------------------------
(* _utils/manager_utils.py *)

\* ROOT_DIR of comfy_config.py, the parent of _utils.
RootDir == <<"repo">>

\* The working directory of the scripts.
Cwd == RootDir

(* A typed or configured path is absolute, starts with "~", or is relative *)
(* and then starts with ".".  Path(s), as the filesystem calls read it.    *)
AbsPath(s) ==
  IF s = <<>> THEN Cwd
  ELSE IF Head(s) = "." THEN Cwd \o Tail(s)
  ELSE IF Head(s) = "~" THEN Cwd \o s
  ELSE s

\* dir / s: an absolute s replaces dir.
JoinPath(dir, s) ==
  IF s = <<>> THEN dir
  ELSE IF Head(s) = "." THEN dir \o Tail(s)
  ELSE IF Head(s) = "~" THEN dir \o s
  ELSE s

\* os.path.basename
Basename(p) == IF p = <<>> THEN <<>> ELSE <<".", Last(p)>>

\* get_available_snapshots: the *.json names in the snapshots directory.
get_available_snapshots(f, snapshots_dir) ==
  IF ~Exists(f, snapshots_dir) THEN {} ELSE GlobJson(f, snapshots_dir)

\* get_user_selection: the typed text if any, else the default, else None.
get_user_selection(default, line) ==
  LET response == Strip(line)
  IN IF default # <<>>
     THEN IF response # <<>> THEN response ELSE default
     ELSE IF response # <<>> THEN response ELSE <<>>

ManagerDir(comfy_path) == comfy_path \o <<"user", "default", "ComfyUI-Manager">>

\* setup_manager_config, from "Create target directory and copy config" on.
CopyManagerConfig(f, comfy_path, source_path) ==
  LET target_dir == ManagerDir(comfy_path)
      target_file == target_dir \o <<"config.ini">>
      a == Mkdir(f, target_dir)
      b == IF Exists(a.fs, target_file) THEN Unlink(a.fs, target_file)
                                         ELSE Ok(a.fs)
  IN IF a.err # "" THEN a
     ELSE IF b.err # "" THEN b
     ELSE CopyFile(b.fs, source_path, target_file)

\* What setup_manager_config gives when it went on to copy, with result r.
CopyResult(r, prompted) ==
  [fs |-> r.fs, err |-> r.err, prompted |-> prompted, copied |-> r.err = ""]

(* setup_manager_config(comfy_path, config_source, skip_prompt): the       *)
(* filesystem it leaves, the exception it raised, whether it read a line   *)
(* from the user and whether it copied the file.                           *)
setup_manager_config(f, comfy_path, config_source, skip_prompt, line) ==
  LET found == config_source # <<>>
               /\ IsFile(f, AbsPath(ExpandUser(config_source)))
      prompted == ~skip_prompt /\ ~found
      source == IF prompted THEN get_user_selection(<<>>, line)
                ELSE config_source
      source_path == AbsPath(ExpandUser(source))
  IN IF source = <<>> \/ (~found /\ ~IsFile(f, source_path))
     THEN [fs |-> f, err |-> "", prompted |-> prompted, copied |-> FALSE]
     ELSE CopyResult(CopyManagerConfig(f, comfy_path, source_path), prompted)

\* restore_snapshot with the bug of taking a name typed at the prompt
\* without looking whether it is a file.
SnapshotChoice_TypedUnchecked(f, comfy_path, snapshot_path, skip_prompt, line) ==
  LET snapshots_dir == ManagerDir(comfy_path) \o <<"snapshots">>
      source_path == ExpandUser(snapshot_path)
  IN IF skip_prompt
     THEN [path |-> IF IsFile(f, AbsPath(source_path)) THEN source_path
                    ELSE <<>>, prompted |-> FALSE]
     ELSE [path |-> IF Strip(line) = <<>> THEN <<>>
                    ELSE JoinPath(snapshots_dir, Strip(line)),
           prompted |-> TRUE]

(* restore_snapshot up to the call of the comfy command: the snapshot path *)
(* it settled on (<<>> when it returns without one) and whether it read a  *)
(* line from the user.                                                     *)
SnapshotChoice(f, comfy_path, snapshot_path, skip_prompt, line) ==
  LET snapshots_dir == ManagerDir(comfy_path) \o <<"snapshots">>
      available_snapshots == get_available_snapshots(f, snapshots_dir)
      none(prompted) == [path |-> <<>>, prompted |-> prompted]
      check(source_path, prompted) ==
        IF source_path = <<>> THEN none(prompted)
        ELSE IF ~IsFile(f, AbsPath(source_path)) THEN none(prompted)
        ELSE [path |-> source_path, prompted |-> prompted]
  IN IF skip_prompt
     THEN IF snapshot_path = <<>> THEN none(FALSE)
          ELSE check(ExpandUser(snapshot_path), FALSE)
     ELSE LET default_path == ExpandUser(snapshot_path)
              response ==
                IF snapshot_path # <<>>
                THEN IF available_snapshots # {}
                     THEN get_user_selection(Basename(default_path), line)
                     ELSE get_user_selection(default_path, line)
                ELSE get_user_selection(<<>>, line)
          IN IF response = <<>> THEN none(TRUE)
             ELSE IF available_snapshots # {}
                  THEN check(JoinPath(snapshots_dir, response), TRUE)
                  ELSE check(ExpandUser(response), TRUE)

(* restore_snapshot(comfy_path, snapshot_path, skip_prompt), the comfy     *)
(* command ending as `outcome`: whether the command was invoked and on     *)
(* which path, the exception that escaped, and the error it logged.        *)
restore_snapshot(f, comfy_path, snapshot_path, skip_prompt, line, outcome) ==
  LET c == SnapshotChoice(f, comfy_path, snapshot_path, skip_prompt, line)
  IN IF c.path = <<>>
     THEN [invoked |-> FALSE, path |-> <<>>, prompted |-> c.prompted,
           outcome |-> "", err |-> "", report |-> ""]
     ELSE [invoked |-> TRUE, path |-> c.path, prompted |-> c.prompted,
           outcome |-> outcome,
           err |-> IF outcome \in {"ok", "nonzero"} THEN "" ELSE outcome,
           report |-> IF outcome = "nonzero" THEN "Failed to restore snapshot"
                      ELSE ""]

---------------------------------------------------------------------------
(* comfy_config.py: functions *)

\* str.lower on the characters a reply is made of.
LowerChar(c) == IF c = "N" THEN "n" ELSE IF c = "Y" THEN "y" ELSE c

Lower(reply) == [i \in DOMAIN reply |-> LowerChar(reply[i])]

RECURSIVE LStrip(_)
LStrip(reply) ==
  IF reply # <<>> /\ Head(reply) = " " THEN LStrip(Tail(reply)) ELSE reply

RECURSIVE RStrip(_)
RStrip(reply) ==
  IF reply # <<>> /\ Last(reply) = " "
  THEN RStrip(SubSeq(reply, 1, Len(reply) - 1)) ELSE reply

\* str.strip on a reply given as its characters.
StripChars(reply) == RStrip(LStrip(reply))

\* get_user_confirmation with the bug of comparing the reply as typed.
get_user_confirmation_NoLower(skip_prompt, reply) ==
  IF skip_prompt THEN TRUE
  ELSE StripChars(reply) # <<"n">>

\* get_user_confirmation(message, skip_prompt), the user typing `reply`.
get_user_confirmation(skip_prompt, reply) ==
  IF skip_prompt THEN TRUE
  ELSE StripChars(Lower(reply)) # <<"n">>

\* Whether get_user_confirmation reads a line: console.input is reached
\* only past the early return.
ConfirmationReads(skip_prompt) == ~skip_prompt

\* path.exists() and (path / "main.py").exists()
ValidWorkspace(f, path) ==
  Exists(f, AbsPath(path)) /\ Exists(f, AbsPath(path) \o <<"main.py">>)

\* Path.home() / 'ComfyUI'
DefaultPath == Home \o <<"ComfyUI">>

\* One subprocess invocation: the command, how it ended, what was logged.
Call(cmd, outcome, report) ==
  [cmd |-> cmd, outcome |-> outcome, report |-> report]

(* check_comfy_cli_installed, `comfy --version` ending as `outcome`.       *)
(* Only FileNotFoundError is caught.                                       *)
check_comfy_cli_installed(outcome) ==
  [installed |-> outcome = "ok",
   err |-> IF outcome \in {"ok", "nonzero", "FileNotFoundError"} THEN ""
           ELSE outcome]

\* install_comfy_cli with the bug of reporting success whatever pip did.
install_comfy_cli_IgnoresPip(skip_prompt, reply, outcome) ==
  IF ~skip_prompt /\ ~get_user_confirmation(FALSE, reply)
  THEN [ok |-> FALSE, res |-> "declined", prompted |-> TRUE, calls |-> <<>>]
  ELSE [ok |-> TRUE,
        res |-> IF outcome = "ok" THEN "ok" ELSE "failed",
        prompted |-> ~skip_prompt,
        calls |-> <<[cmd |-> "pip install comfy-cli", outcome |-> outcome,
                     report |-> ""]>>]

(* install_comfy_cli(skip_prompt), the user typing `reply` and pip ending  *)
(* as `outcome`: every failure is caught and logged.                       *)
install_comfy_cli(skip_prompt, reply, outcome) ==
  IF ~skip_prompt /\ ~get_user_confirmation(FALSE, reply)
  THEN [ok |-> FALSE, res |-> "declined", prompted |-> TRUE, calls |-> <<>>]
  ELSE [ok |-> outcome = "ok",
        res |-> IF outcome = "ok" THEN "ok" ELSE "failed",
        prompted |-> ~skip_prompt,
        calls |-> <<Call("pip install comfy-cli", outcome,
                         IF outcome = "ok" THEN ""
                         ELSE IF outcome = "nonzero"
                              THEN "Failed to install comfy-cli"
                              ELSE "Error installing comfy-cli")>>]

(* get_comfy_workspace, `comfy which` ending as `outcome` and printing     *)
(* `stdout`: the workspace (<<>> for None); every exception is caught.     *)
get_comfy_workspace(f, outcome, stdout) ==
  LET workspace == stdout.path
  IN IF outcome = "ok"
     THEN [workspace |-> IF ValidWorkspace(f, workspace) THEN workspace
                         ELSE <<>>,
           calls |-> <<Call("comfy which", outcome, "")>>]
     ELSE [workspace |-> <<>>,
           calls |-> <<Call("comfy which", outcome,
                            IF outcome = "nonzero"
                            THEN "No active workspace found"
                            ELSE "Error getting workspace")>>]

\* What `comfy install` leaves at the default path when it succeeds.
Installed(f) ==
  [q \in DOMAIN f \cup {DefaultPath, DefaultPath \o <<"main.py">>} |->
     IF q = DefaultPath THEN Dir
     ELSE IF q = DefaultPath \o <<"main.py">> THEN File("main")
     ELSE f[q]]

\* An outcome of a subprocess.run(..., check=True) that raises.
Raises(outcome) == outcome # "ok"

(* setup_default_workspace(skip_prompt): COMFY_PATH being `env`, the user  *)
(* typing `reply`, and the comfy commands ending as o_set (set-default),   *)
(* o_install (install) and o_which (which, printing stdout).               *)
setup_default_workspace(f, skip_prompt, env, reply, o_set, o_install, o_which, stdout) ==
  LET result(ws, err, prompted, calls, g) ==
        [workspace |-> ws, err |-> err, prompted |-> prompted,
         calls |-> calls, fs |-> g]
      declined == ~skip_prompt /\ ~get_user_confirmation(FALSE, reply)
      setc == Call("comfy set-default", o_set,
                   IF o_set = "ok" THEN ""
                   ELSE IF o_set = "nonzero"
                        THEN "Failed to set default workspace"
                        ELSE "traceback")
      instc == Call("comfy install", o_install,
                    IF o_install = "ok" THEN "" ELSE "traceback")
      setc2 == Call("comfy set-default", o_set,
                    IF o_set = "ok" THEN "" ELSE "traceback")
  IN IF env # <<>> /\ ValidWorkspace(f, env)
     THEN result(env, "", FALSE, <<>>, f)
     ELSE IF Exists(f, DefaultPath)
     THEN IF declined THEN result(<<>>, "", TRUE, <<>>, f)
          ELSE IF o_set = "ok"
               THEN result(DefaultPath, "", ~skip_prompt, <<setc>>, f)
          ELSE IF o_set = "nonzero"
               THEN result(<<>>, "", ~skip_prompt, <<setc>>, f)
          ELSE result(<<>>, o_set, ~skip_prompt, <<setc>>, f)
     ELSE IF declined THEN result(<<>>, "", TRUE, <<>>, f)
          ELSE IF Raises(o_install)
               THEN result(<<>>, IF o_install = "nonzero"
                                 THEN "CalledProcessError" ELSE o_install,
                           ~skip_prompt, <<instc>>, f)
          ELSE IF Raises(o_set)
               THEN result(<<>>, IF o_set = "nonzero"
                                 THEN "CalledProcessError" ELSE o_set,
                           ~skip_prompt, <<instc, setc2>>, Installed(f))
          ELSE LET w == get_comfy_workspace(Installed(f), o_which, stdout)
               IN result(w.workspace, "", ~skip_prompt,
                         <<instc, setc2>> \o w.calls, Installed(f))

\* get_symlink_script_path: the script if it exists, else None (<<>>).
get_symlink_script_path(f) ==
  LET script_path == RootDir \o <<"_utils", "setup_symlinks.py">>
  IN IF Exists(f, script_path) THEN script_path ELSE <<>>

\* The keys of get_symlink_defaults, in order.
SymlinkKeys == <<"input", "output", "models", "snapshots", "workflows">>

(* The --key value arguments main hands to setup_symlinks.py, as the       *)
(* keyword arguments the script makes of them.  In skip-prompt mode a      *)
(* --key=value of the command line goes before the environment's value.    *)
SymlinkArgs(skip_prompt, argv, symlink_defaults) ==
  LET value(key) ==
        IF skip_prompt /\ argv[key] # <<>> THEN argv[key]
        ELSE symlink_defaults[key]
      given == SelectSeq(SymlinkKeys, LAMBDA key : value(key) # <<>>)
  IN [i \in DOMAIN given |-> [name |-> given[i], path |-> value(given[i])]]

\* _copy_settings_files, the JSON files met in the order `names`.
RECURSIVE CopyEach(_, _, _, _)
CopyEach(f, source_path, target_dir, names) ==
  IF names = <<>> THEN Ok(f)
  ELSE LET r == CopyFile(f, source_path \o <<Head(names)>>,
                         target_dir \o <<Head(names)>>)
       IN IF r.err # "" THEN r
          ELSE CopyEach(r.fs, source_path, target_dir, Tail(names))

_copy_settings_files(f, source_dir, target_dir, names) ==
  LET a == Mkdir(f, target_dir)
  IN IF a.err # "" THEN a
     ELSE CopyEach(a.fs, AbsPath(source_dir), target_dir, names)

\* The orders in which a directory listing may give the names of S.
Orders(S) ==
  {o \in [1..Cardinality(S) -> S] : \A n \in S : \E i \in DOMAIN o : o[i] = n}

\* copy_user_settings: the directory it settles on, <<>> when it has none.
SettingsDir(skip_prompt, default_settings_dir, line) ==
  IF skip_prompt THEN ExpandUser(default_settings_dir)
  ELSE IF default_settings_dir # <<>> /\ Strip(line) = <<>>
       THEN ExpandUser(default_settings_dir)
       ELSE ExpandUser(Strip(line))

(* copy_user_settings(workspace, skip_prompt): USER_SETTINGS_DIR being     *)
(* default_settings_dir, the user typing `line` when asked.                *)
copy_user_settings(f, workspace, skip_prompt, default_settings_dir, line, names) ==
  LET target_dir == AbsPath(workspace) \o <<"user", "default">>
      settings_dir == SettingsDir(skip_prompt, default_settings_dir, line)
      none == [fs |-> f, err |-> "", prompted |-> ~skip_prompt]
  IN IF settings_dir = <<>> THEN none
     ELSE IF ~Exists(f, AbsPath(settings_dir)) THEN none
     ELSE IF GlobJson(f, AbsPath(settings_dir)) = {} THEN none
     ELSE LET r == _copy_settings_files(f, settings_dir, target_dir, names)
          IN [fs |-> r.fs, err |-> r.err, prompted |-> ~skip_prompt]

(* handle_manager_setup(workspace, skip_prompt) up to the launch of        *)
(* manager_utils.py: MANAGER_CONFIG and SNAPSHOT_PATH being manager_config *)
(* and snapshot, the user typing `reply`.  The confirmation is asked       *)
(* without skip_prompt.                                                    *)
handle_manager_setup(f, skip_prompt, manager_config, snapshot, reply) ==
  LET manager_script == RootDir \o <<"_utils", "manager_utils.py">>
      config == IF manager_config # <<>>
                   /\ IsFile(f, AbsPath(ExpandUser(manager_config)))
                THEN ExpandUser(manager_config) ELSE <<>>
  IN IF ~Exists(f, manager_script)
     THEN [launched |-> FALSE, prompted |-> FALSE,
           config |-> <<>>, snapshot |-> <<>>]
     ELSE [launched |-> get_user_confirmation(FALSE, reply),
           prompted |-> TRUE, config |-> config, snapshot |-> snapshot]

(* subprocess.run(cmd, check=check), the command ending as `outcome`: the  *)
(* exception it raises.  A non-zero return code raises only with check.    *)
RunResult(check, outcome) ==
  [err |-> IF outcome = "ok" THEN ""
           ELSE IF outcome = "nonzero"
                THEN IF check THEN "CalledProcessError" ELSE ""
           ELSE outcome]

(* How a script's process ends: err is the exception that reached the top  *)
(* of its main, rc the status main exits with otherwise; `restore` is how  *)
(* the restore-snapshot command of the process ended.  Only the main of    *)
(* setup_symlinks.py has a try/except; elsewhere the exception leaves      *)
(* main and the interpreter prints the traceback and exits with 1.         *)
ScriptEnd(script, err, rc, restore) ==
  [script |-> script, raised |-> err,
   caught |-> err # "" /\ script = "setup_symlinks.py",
   stderr |-> err # "",
   rc |-> IF err # "" THEN 1 ELSE rc,
   restore |-> restore]

---------------------------------------------------------------------------
(* State *)

VARIABLES
  fs,      \* the filesystem
  fs0,     \* the filesystem when the running call began
  prev,    \* the filesystem before the last entry of the running call
  pc,      \* where the running _utils call is
  op,      \* the running call: its name and arguments
  todo,    \* the entries the running loop has still to handle
  asked,   \* setup_symlinks: the prompts answered so far
  hist,    \* the entries handled so far and what each did
  exc,     \* the exception that ended the call, "" when none
  pkg,     \* the import of the _utils package: its state and the names bound
  mpc,          \* where comfy_config.py main is, "off" when it is not run
  skip_prompt,  \* '--skip-prompt' in sys.argv
  cli,          \* the comfy command: "ok", "absent" or "denied" (not executable)
  environ,      \* os.environ['COMFY_PATH'], <<>> when unset
  workspace,    \* main's workspace
  res,          \* how the installation and the workspace look-ups ended
  prompts,      \* the prompts that waited for the user so far
  steps,        \* the configuration steps main has entered, in order
  calls,        \* the subprocess invocations made so far
  procs,        \* the script processes that have ended, in order
  mgr           \* the running manager_utils.py: position and arguments

utilVars == <<fs, fs0, prev, pc, op, todo, asked, hist, exc, pkg>>

mainVars == <<mpc, skip_prompt, cli, environ, workspace, res, prompts, steps,
              calls, procs, mgr>>

\* The state of the running _utils call apart from the filesystem.
callVars == <<fs0, prev, pc, op, todo, asked, hist, exc, pkg>>

\* The workspace and project paths the calls are given.
WS == <<"ws">>

ProjectRoot == <<"proj">>

UserDefault == WS \o <<"user", "default">>

FsOf(S) == [p \in {e[1] : e \in S} |-> (CHOOSE e \in S : e[1] = p)[2]]

\* What may be at <workspace>/input before a call.
InputStates ==
  { {},
    {<<WS \o <<"input">>, File("x")>>},
    {<<WS \o <<"input">>, Dir>>, <<WS \o <<"input", "old">>, Dir>>},
    {<<WS \o <<"input">>, Link(Home \o <<"in">>)>>},
    {<<WS \o <<"input">>, Link(<<"gone">>)>>} }

UserDefaultDirs == {<<WS \o <<"user">>, Dir>>, <<UserDefault, Dir>>}

\* What may be at <workspace>/user before a call.
UserStates ==
  { {},
    {<<WS \o <<"user">>, File("x")>>},
    UserDefaultDirs,
    UserDefaultDirs \cup
      {<<UserDefault \o <<"workflows">>, Dir>>,
       <<UserDefault \o <<"workflows", "w">>, File("w")>>,
       <<UserDefault \o <<"comfy.settings.json">>, File("old")>>},
    UserDefaultDirs \cup
      {<<UserDefault \o <<"workflows">>, Link(<<"gone">>)>>,
       <<UserDefault \o <<"comfy.settings.json">>, Link(<<"gone">>)>>,
       <<UserDefault \o <<"jnodes.settings.json">>, Link(Home \o <<"in">>)>>},
    UserDefaultDirs \cup
      {<<UserDefault \o <<"workflows">>, File("x")>>,
       <<UserDefault \o <<"comfy.settings.json">>, Dir>>} }

ProjectDirs ==
  {<<ProjectRoot, Dir>>, <<ProjectRoot \o <<"user">>, Dir>>,
   <<ProjectRoot \o <<"user", "default">>, Dir>>}

\* What the project directory may hold.
ProjectStates ==
  { {},
    ProjectDirs \cup
      {<<ProjectRoot \o <<"input">>, Dir>>,
       <<ProjectRoot \o <<"output">>, Dir>>,
       <<ProjectRoot \o <<"user", "default", "workflows">>, Dir>>,
       <<ProjectRoot \o <<"user", "default", "comfy.settings.json">>, File("new")>>,
       <<ProjectRoot \o <<"user", "default", "jnodes.settings.json">>, File("j")>>},
    ProjectDirs \cup
      {<<ProjectRoot \o <<"input">>, File("x")>>,
       <<ProjectRoot \o <<"user", "default", "comfy.settings.json">>, File("new")>>,
       <<ProjectRoot \o <<"user", "default", "jnodes.settings.json">>, Dir>>} }

BaseEntries == {<<WS, Dir>>, <<Home, Dir>>, <<Home \o <<"in">>, Dir>>}

InitFS ==
  {FsOf(BaseEntries \cup a \cup b \cup c) :
     a \in InputStates, b \in UserStates, c \in ProjectStates}

(* The keyword arguments of setup_symlinks: folder names in argument order *)
(* with the default path of each (<<>> for None).                          *)
DefaultPaths == {<<>>, <<"~", "in">>}

FolderLists == {<<"input">>, <<"input", "output">>, <<"input", "workflows">>}

PathsArgs ==
  UNION {{[i \in DOMAIN l |-> [name |-> l[i], path |-> d[i]]] :
            d \in [DOMAIN l -> DefaultPaths]} : l \in FolderLists}

\* The paths a user types: none, an existing directory, a new one, a target,
\* a directory inside a target, the target of another folder.
TypedPaths ==
  {<<>>, <<"~", "in">>, <<"new", "x">>, WS \o <<"input">>,
   WS \o <<"input", "old">>, WS \o <<"output">>}

Lines == [text : TypedPaths, pad : BOOLEAN]

\* The lines typed at the prompts of a run of comfy_config.py.
MainLines ==
  {[text |-> <<>>, pad |-> FALSE], [text |-> <<"~", "in">>, pad |-> TRUE]}

DirLists == {<<"input">>, <<"input", "output">>}

NoOp == [name |-> "", comfy_path |-> <<>>, project_root |-> <<>>, args |-> <<>>]

---------------------------------------------------------------------------
(* _utils/__init__.py *)

\* The names each module of the package defines at its top level.
ModuleDefs ==
  [setup_symlinks |->
     {"get_user_path", "setup_symlinks", "_setup_directory_symlinks",
      "_setup_settings_symlinks", "parse_args", "main"},
   manager_utils |->
     {"console", "logger", "ROOT_DIR", "ENV_FILE", "get_available_snapshots",
      "get_user_selection", "setup_manager_config", "restore_snapshot",
      "parse_args", "main"}]

\* The "from .module import names" statements of the package, in order.
PackageImports ==
  <<[module |-> "setup_symlinks", names |-> <<"setup_symlinks">>],
    [module |-> "manager_utils",
     names |-> <<"setup_manager_config", "handle_snapshot">>]>>

\* __all__
PackageAll == {"setup_symlinks", "setup_manager_config", "handle_snapshot"}

(* One import statement: the names are fetched from the module one by one  *)
(* and bound; the first one the module does not define raises ImportError. *)
RECURSIVE ImportFrom(_, _, _)
ImportFrom(defs, names, bound) ==
  IF names = <<>> THEN [names |-> bound, err |-> ""]
  ELSE IF Head(names) \notin defs THEN [names |-> bound, err |-> "ImportError"]
  ELSE ImportFrom(defs, Tail(names), bound \cup {Head(names)})

NotImported == [state |-> "unloaded", next |-> 1, names |-> {}]

NoRes == [install |-> "", which |-> "", dflt |-> ""]

NoMgr == [pc |-> "", config |-> <<>>, snapshot |-> <<>>]

UtilInit(f) ==
  /\ fs = f /\ fs0 = f /\ prev = f
  /\ pc = "start" /\ op = NoOp /\ todo = <<>>
  /\ asked = <<>> /\ hist = <<>> /\ exc = ""
  /\ pkg = NotImported
  /\ mpc = "off" /\ skip_prompt = FALSE /\ cli = "ok" /\ environ = <<>>
  /\ workspace = <<>> /\ res = NoRes /\ prompts = {} /\ steps = <<>>
  /\ calls = <<>> /\ procs = <<>> /\ mgr = NoMgr

\* A handled entry: what it was given, what was there before, what it did.
HistEntry(name, target, source, f, r) ==
  [name |-> name, target |-> target, source |-> source,
   srcKind |-> KindAt(f, Stat(f, source)),
   tgtKind |-> KindAt(f, Lstat(f, target)),
   err |-> r.err, stage |-> r.stage, warned |-> r.warned,
   linked |-> r.linked, occupied |-> r.occupied]

\* One loop body has run with result r on the entry at the head of todo.
AfterEntry(name, target, source, r) ==
  /\ prev' = fs
  /\ fs' = r.fs
  /\ hist' = Append(hist, HistEntry(name, target, source, fs, r))
  /\ exc' = r.err
  /\ IF r.err # ""
     THEN pc' = "raised" /\ todo' = todo
     ELSE /\ todo' = Tail(todo)
          /\ pc' = IF Tail(todo) = <<>> THEN "returned" ELSE pc
  /\ UNCHANGED <<fs0, op, asked, pkg>>
  /\ UNCHANGED mainVars

(* setup_symlinks(comfy_path, **paths): the check of comfy_path; the       *)
(* prompts follow one by one.                                              *)
BeginSetupSymlinks(comfy_path, paths) ==
  /\ op' = [name |-> "setup_symlinks", comfy_path |-> ExpandUser(comfy_path),
            project_root |-> <<>>, args |-> paths]
  /\ fs0' = fs /\ prev' = fs /\ asked' = <<>> /\ hist' = <<>>
  /\ IF comfy_path = <<>>
     THEN pc' = "raised" /\ exc' = "ValueError" /\ todo' = <<>>
     ELSE /\ exc' = ""
          /\ todo' = paths
          /\ pc' = IF paths = <<>> THEN "returned" ELSE "prompting"
  /\ UNCHANGED <<fs, pkg>>

CallSetupSymlinks ==
  /\ pc = "idle"
  /\ \E comfy_path \in {<<>>, WS}, paths \in PathsArgs :
       BeginSetupSymlinks(comfy_path, paths)
  /\ UNCHANGED mainVars

\* The symlinks_to_create dictionary: the answered folders that have a path.
Collected(answers) ==
  SelectSeq(answers, LAMBDA a : a.source # <<>>)

\* setup_symlinks, first loop: one prompt is answered.
GetUserPathStep ==
  /\ pc = "prompting"
  /\ \E line \in IF mpc = "off" THEN Lines ELSE MainLines :
       LET e == Head(todo)
           a == [name |-> e.name, default |-> e.path, text |-> Strip(line),
                 source |-> get_user_path(e.path, line)]
           all == Append(asked, a)
           got == Collected(all)
       IN /\ asked' = all
          /\ IF Tail(todo) # <<>>
             THEN todo' = Tail(todo) /\ pc' = "prompting"
             ELSE /\ todo' = [i \in DOMAIN got |->
                               [name |-> got[i].name, path |-> got[i].source]]
                  /\ pc' = IF got = <<>> THEN "returned" ELSE "linking"
  /\ UNCHANGED <<fs, fs0, prev, op, hist, exc, pkg>>
  /\ UNCHANGED mainVars

\* setup_symlinks, second loop: one collected folder is linked.
LinkFolderStep ==
  /\ pc = "linking"
  /\ \E r \in {LinkFolder(fs, op.comfy_path, Head(todo).name,
                          Head(todo).path)} :
       AfterEntry(Head(todo).name, TargetOf(op.comfy_path, Head(todo).name),
                  Head(todo).path, r)

\* _setup_directory_symlinks(comfy_path, project_root, dirs) is called.
CallSetupDirectorySymlinks ==
  /\ pc = "idle"
  /\ \E dirs \in DirLists :
       /\ op' = [name |-> "_setup_directory_symlinks", comfy_path |-> WS,
                 project_root |-> ProjectRoot, args |-> dirs]
       /\ todo' = [i \in DOMAIN dirs |-> [name |-> dirs[i], path |-> <<>>]]
       /\ pc' = "directories"
  /\ fs0' = fs /\ prev' = fs /\ hist' = <<>> /\ exc' = ""
  /\ UNCHANGED <<fs, asked, pkg>>
  /\ UNCHANGED mainVars

\* _setup_directory_symlinks: the loop body for the next directory name.
DirectoryStep ==
  /\ pc = "directories"
  /\ \E r \in {DirectoryEntry(fs, op.comfy_path, op.project_root,
                              Head(todo).name)} :
       AfterEntry(Head(todo).name, op.comfy_path \o <<Head(todo).name>>,
                  op.project_root \o <<Head(todo).name>>, r)

(* _setup_settings_symlinks(comfy_path, project_root) is called: the       *)
(* target directory is created, then come the workflows directory and the  *)
(* settings files.                                                         *)
CallSetupSettingsSymlinks ==
  /\ pc = "idle"
  /\ LET r == Mkdir(fs, WS \o <<"user", "default">>)
     IN /\ op' = [name |-> "_setup_settings_symlinks", comfy_path |-> WS,
                  project_root |-> ProjectRoot, args |-> <<>>]
        /\ fs' = r.fs /\ fs0' = fs /\ prev' = fs /\ hist' = <<>>
        /\ exc' = r.err
        /\ IF r.err # ""
           THEN pc' = "raised" /\ todo' = <<>>
           ELSE /\ pc' = "settings"
                /\ todo' = <<[name |-> "workflows", path |-> <<>>]>> \o
                     [i \in DOMAIN settings_files |->
                        [name |-> settings_files[i], path |-> <<>>]]
  /\ UNCHANGED <<asked, pkg>>
  /\ UNCHANGED mainVars

\* _setup_settings_symlinks: the workflows directory or the next settings file.
SettingsStep ==
  /\ pc = "settings"
  /\ LET name == Head(todo).name
         target == op.comfy_path \o <<"user", "default", name>>
         source == op.project_root \o <<"user", "default", name>>
     IN \E r \in {IF name = "workflows"
                   THEN WorkflowsEntry(fs, target, source)
                   ELSE SettingsFileEntry(fs, target, source)} :
          AfterEntry(name, target, source, r)

(* "import _utils": the next import statement of __init__.py runs; after   *)
(* the last one __all__ is set and the package is loaded.  An ImportError  *)
(* ends the process.                                                       *)
ImportStep ==
  /\ pc \in {"start", "importing"}
  /\ LET stmt == PackageImports[pkg.next]
         r == ImportFrom(ModuleDefs[stmt.module], stmt.names, pkg.names)
     IN IF r.err # ""
        THEN /\ pkg' = [state |-> r.err, next |-> pkg.next, names |-> r.names]
             /\ pc' = "raised" /\ exc' = r.err
        ELSE /\ exc' = exc
             /\ IF pkg.next = Len(PackageImports)
                THEN /\ pkg' = [state |-> "loaded", next |-> pkg.next,
                                names |-> r.names \cup {"__all__"}]
                     /\ pc' = "idle"
                ELSE /\ pkg' = [state |-> "loading", next |-> pkg.next + 1,
                                names |-> r.names]
                     /\ pc' = "importing"
  /\ UNCHANGED <<fs, fs0, prev, op, todo, asked, hist>>
  /\ UNCHANGED mainVars

\* setup_symlinks.py is loaded by its path, not through the package.
LoadByPath ==
  /\ pc = "start"
  /\ pc' = "idle"
  /\ UNCHANGED <<fs, fs0, prev, op, todo, asked, hist, exc, pkg>>
  /\ UNCHANGED mainVars

Init == \E f \in InitFS : UtilInit(f)

Next ==
  \/ ImportStep
  \/ LoadByPath
  \/ CallSetupSymlinks
  \/ GetUserPathStep
  \/ LinkFolderStep
  \/ CallSetupDirectorySymlinks
  \/ DirectoryStep
  \/ CallSetupSettingsSymlinks
  \/ SettingsStep

vars == <<utilVars, mainVars>>

Spec == Init /\ [][Next]_vars

---------------------------------------------------------------------------
(* comfy_config.py: main *)

\* What the project, the workspace and the home directory hold in any run.
MainBase ==
  {<<RootDir, Dir>>, <<WS, Dir>>, <<WS \o <<"main.py">>, File("main")>>,
   <<Home, Dir>>, <<Home \o <<"in">>, Dir>>,
   <<Home \o <<"dl">>, Link(<<"gone">>)>>,
   <<Home \o <<"settings">>, Dir>>,
   <<Home \o <<"settings", "comfy.settings.json">>, File("new")>>,
   <<Home \o <<"settings", "jnodes.settings.json">>, File("j")>>,
   <<Home \o <<"config.ini">>, File("cfg")>>,
   <<Home \o <<"snap.json">>, File("snap")>>}

\* The helper scripts: both there, or the _utils folder missing.
ScriptStates ==
  { {},
    {<<RootDir \o <<"_utils">>, Dir>>,
     <<RootDir \o <<"_utils", "setup_symlinks.py">>, File("py")>>,
     <<RootDir \o <<"_utils", "manager_utils.py">>, File("py")>>} }

\* ~/ComfyUI: missing, or an installation.
DefaultStates ==
  { {},
    {<<DefaultPath, Dir>>, <<DefaultPath \o <<"main.py">>, File("main")>>} }

\* <workspace>/user: missing, a regular file, or holding settings.
MainUserStates ==
  { {},
    {<<WS \o <<"user">>, File("x")>>},
    UserDefaultDirs \cup
      {<<UserDefault \o <<"comfy.settings.json">>, File("old")>>,
       <<UserDefault \o <<"ComfyUI-Manager">>, Dir>>,
       <<UserDefault \o <<"ComfyUI-Manager", "config.ini">>, File("old")>>} }

MainInitFS ==
  {FsOf(MainBase \cup a \cup b \cup c) :
     a \in ScriptStates, b \in DefaultStates, c \in MainUserStates}

\* What the user types at a (Y/n) question, character by character.
Replies ==
  {<<>>, <<"y">>, <<"n">>, <<"N">>, <<" ", "N", " ">>, <<"n", "o">>}

\* How a command that could be started ends.
RunCodes == {"ok", "nonzero"}

\* What `comfy which` prints: the path, after a warning or alone.
WhichOutputs ==
  {[marker |-> FALSE, path |-> WS], [marker |-> TRUE, path |-> DefaultPath],
   [marker |-> FALSE, path |-> <<"gone">>]}

\* The values of the environment variables and arguments of a run.
ComfyPaths == {<<>>, WS, <<"gone">>}

InputDirs == {<<>>, <<"~", "in">>, <<"~", "dl">>}

WorkflowDirs == {<<>>, <<"~", "in">>}

ArgValues == {<<>>, <<"new", "x">>}

UserSettingsDirs == {<<>>, <<"~", "settings">>}

ManagerConfigs == {<<>>, <<"~", "config.ini">>, <<"gone">>}

SnapshotPaths == {<<>>, <<"~", "snap.json">>}

\* Starting a command: it is missing, may not be executed, or runs and ends.
CmdOutcome(rc) ==
  IF cli = "absent" THEN "FileNotFoundError"
  ELSE IF cli = "denied" THEN "PermissionError"
  ELSE rc

MainInit ==
  /\ \E f \in MainInitFS : fs = f /\ fs0 = f /\ prev = f
  /\ pc = "off" /\ op = NoOp /\ todo = <<>>
  /\ asked = <<>> /\ hist = <<>> /\ exc = ""
  /\ pkg = NotImported
  /\ mpc = "check_cli"
  /\ skip_prompt \in BOOLEAN
  /\ cli \in {"ok", "absent", "denied"}
  /\ environ \in ComfyPaths
  /\ workspace = <<>> /\ res = NoRes /\ prompts = {} /\ steps = <<>>
  /\ calls = <<>> /\ procs = <<>> /\ mgr = NoMgr

\* main goes on to its next position.
Goto(next) == mpc' = next /\ procs' = procs

\* main ends: an exception leaves it, or it calls sys.exit(rc).
MainExit(err, rc) ==
  /\ mpc' = "exited"
  /\ procs' = Append(procs, ScriptEnd("comfy_config.py", err, rc, ""))

Asked(prompted, name) == IF prompted THEN prompts \cup {name} ELSE prompts

\* main, lines 413-414: check_comfy_cli_installed().
CheckComfyCli ==
  /\ mpc = "check_cli"
  /\ \E rc \in RunCodes :
       LET o == CmdOutcome(rc)
           r == check_comfy_cli_installed(o)
       IN /\ calls' = Append(calls,
                         Call("comfy --version", o,
                              IF o = "ok" THEN ""
                              ELSE IF r.err = "" THEN "comfy-cli not found"
                              ELSE "traceback"))
          /\ IF r.err # "" THEN MainExit(r.err, 1)
             ELSE Goto(IF r.installed THEN "workspace" ELSE "install")
  /\ UNCHANGED <<skip_prompt, cli, environ, workspace, res, prompts, steps, mgr>>
  /\ UNCHANGED <<fs, callVars>>

(* main, lines 415-419: install_comfy_cli(skip_prompt), then sys.exit(1)   *)
(* when it failed.  A successful pip may or may not put comfy on the PATH. *)
InstallComfyCli ==
  /\ mpc = "install"
  /\ \E reply \in Replies, pip \in {"ok", "nonzero", "OSError"},
        onPath \in BOOLEAN :
       LET r == install_comfy_cli(skip_prompt, reply, pip)
       IN /\ prompts' = Asked(r.prompted, "install comfy-cli")
          /\ calls' = calls \o r.calls
          /\ res' = [res EXCEPT !.install = r.res]
          /\ cli' = IF r.ok /\ onPath THEN "ok" ELSE cli
          /\ IF r.ok THEN Goto("workspace") ELSE MainExit("", 1)
  /\ UNCHANGED <<skip_prompt, environ, workspace, steps, mgr>>
  /\ UNCHANGED <<fs, callVars>>

\* main with the bug of using any COMFY_PATH that is set, valid or not.
ReadComfyPath_Unverified ==
  /\ mpc = "workspace"
  /\ IF environ # <<>>
     THEN workspace' = environ /\ Goto("set_env")
     ELSE workspace' = workspace /\ Goto("which")
  /\ UNCHANGED <<skip_prompt, cli, environ, res, prompts, steps, calls, mgr>>
  /\ UNCHANGED <<fs, callVars>>

\* main, lines 425-426 and 437-441: COMFY_PATH is read and verified.
ReadComfyPath ==
  /\ mpc = "workspace"
  /\ IF environ # <<>> /\ ValidWorkspace(fs, environ)
     THEN workspace' = environ /\ Goto("set_env")
     ELSE workspace' = workspace /\ Goto("which")
  /\ UNCHANGED <<skip_prompt, cli, environ, res, prompts, steps, calls, mgr>>
  /\ UNCHANGED <<fs, callVars>>

\* main, lines 428 and 444: get_comfy_workspace().
GetComfyWorkspace ==
  /\ mpc = "which"
  /\ \E rc \in RunCodes, stdout \in WhichOutputs :
       \E r \in {get_comfy_workspace(fs, CmdOutcome(rc), stdout)} :
          /\ calls' = calls \o r.calls
          /\ workspace' = r.workspace
          /\ res' = [res EXCEPT !.which =
                       IF r.workspace = <<>> THEN "none" ELSE "found"]
          /\ Goto(IF r.workspace = <<>> THEN "default_ws" ELSE "set_env")
  /\ UNCHANGED <<skip_prompt, cli, environ, prompts, steps, mgr>>
  /\ UNCHANGED <<fs, callVars>>

(* main, lines 429-434 and 445-450: setup_default_workspace(skip_prompt),  *)
(* then sys.exit(1) when it gave no workspace.                             *)
SetupDefaultWorkspace ==
  /\ mpc = "default_ws"
  /\ \E reply \in Replies, rc_set \in RunCodes, rc_install \in RunCodes,
        rc_which \in RunCodes, stdout \in WhichOutputs :
       \E r \in {setup_default_workspace(fs, skip_prompt, environ, reply,
                  CmdOutcome(rc_set), CmdOutcome(rc_install),
                  CmdOutcome(rc_which), stdout)} :
          /\ fs' = r.fs
          /\ prompts' = Asked(r.prompted, "default workspace")
          /\ calls' = calls \o r.calls
          /\ workspace' = r.workspace
          /\ res' = [res EXCEPT !.dflt =
                       IF r.err # "" THEN "raised"
                       ELSE IF r.workspace = <<>> THEN "none" ELSE "found"]
          /\ IF r.err # "" THEN MainExit(r.err, 1)
             ELSE IF r.workspace = <<>> THEN MainExit("", 1)
             ELSE Goto("set_env")
  /\ UNCHANGED <<skip_prompt, cli, environ, steps, mgr>>
  /\ UNCHANGED callVars

\* main, line 453: os.environ['COMFY_PATH'] = workspace
SetComfyPath ==
  /\ mpc = "set_env"
  /\ environ' = workspace
  /\ Goto("symlinks")
  /\ UNCHANGED <<skip_prompt, cli, workspace, res, prompts, steps, calls, mgr>>
  /\ UNCHANGED <<fs, callVars>>

(* main, lines 459-491, the symlink step up to the launch of               *)
(* setup_symlinks.py: INPUT_DIR and WORKFLOW_DIR being input_dir and       *)
(* workflow_dir, the command line holding --input=arg_input, the user      *)
(* typing `reply`.                                                         *)
SymlinkStep ==
  /\ mpc = "symlinks"
  /\ steps' = Append(steps, "symlinks")
  /\ \E input_dir \in InputDirs, workflow_dir \in WorkflowDirs,
        arg_input \in ArgValues, reply \in Replies :
       LET symlink_script == get_symlink_script_path(fs)
           symlink_defaults ==
             [input |-> input_dir, output |-> <<>>, models |-> <<>>,
              snapshots |-> <<>>, workflows |-> workflow_dir]
           argv == [input |-> arg_input, output |-> <<>>, models |-> <<>>,
                    snapshots |-> <<>>, workflows |-> <<>>]
           paths == SymlinkArgs(skip_prompt, argv, symlink_defaults)
           launch ==
             /\ symlink_script # <<>>
             /\ IF skip_prompt THEN paths # <<>>
                ELSE get_user_confirmation(FALSE, reply)
       IN /\ prompts' = Asked(symlink_script # <<>> /\ ~skip_prompt,
                              "configure symlinks")
          /\ IF launch
             THEN /\ BeginSetupSymlinks(workspace, paths)
                  /\ Goto("symlink_script")
             ELSE /\ Goto("settings")
                  /\ UNCHANGED <<fs, callVars>>
  /\ UNCHANGED <<skip_prompt, cli, environ, workspace, res, calls, mgr>>

(* setup_symlinks.py ends: its main catches the exception, prints it to    *)
(* stderr and exits with 1.  main of comfy_config.py started it with       *)
(* subprocess.run without check (lines 481 and 491) and goes on.           *)
SymlinkScriptExit ==
  /\ mpc = "symlink_script"
  /\ pc \in {"returned", "raised"}
  /\ LET p == ScriptEnd("setup_symlinks.py", exc, 0, "")
         o == IF p.rc = 0 THEN "ok" ELSE "nonzero"
         r == RunResult(FALSE, o)
     IN /\ calls' = Append(calls, Call("setup_symlinks.py", o, ""))
        /\ IF r.err # ""
           THEN /\ mpc' = "exited"
                /\ procs' = procs \o
                     <<p, ScriptEnd("comfy_config.py", r.err, 1, "")>>
           ELSE /\ mpc' = "settings"
                /\ procs' = Append(procs, p)
  /\ pc' = "off"
  /\ UNCHANGED <<skip_prompt, cli, environ, workspace, res, prompts, steps, mgr>>
  /\ UNCHANGED <<fs, fs0, prev, op, todo, asked, hist, exc, pkg>>

(* main, lines 494-495, the user-settings step: the confirmation is asked  *)
(* without skip_prompt, then copy_user_settings(workspace, skip_prompt)    *)
(* runs, USER_SETTINGS_DIR being settings_dir.                             *)
UserSettingsStep ==
  /\ mpc = "settings"
  /\ steps' = Append(steps, "settings")
  /\ \E reply \in Replies, settings_dir \in UserSettingsDirs,
        line \in MainLines :
       \E names \in Orders(GlobJson(fs,
                    AbsPath(SettingsDir(skip_prompt, settings_dir, line)))) :
         \E r \in {copy_user_settings(fs, workspace, skip_prompt,
                                      settings_dir, line, names)} :
            IF get_user_confirmation(FALSE, reply)
            THEN /\ fs' = r.fs
                 /\ prompts' = prompts \cup {"copy user settings"} \cup
                      (IF r.prompted THEN {"settings directory"} ELSE {})
                 /\ IF r.err # "" THEN MainExit(r.err, 1)
                    ELSE Goto("manager")
            ELSE /\ fs' = fs
                 /\ prompts' = prompts \cup {"copy user settings"}
                 /\ Goto("manager")
  /\ UNCHANGED <<skip_prompt, cli, environ, workspace, res, calls, mgr>>
  /\ UNCHANGED callVars

(* main, line 499, the manager step: handle_manager_setup up to the launch *)
(* of manager_utils.py.                                                    *)
ManagerStep ==
  /\ mpc = "manager"
  /\ steps' = Append(steps, "manager")
  /\ \E manager_config \in ManagerConfigs, snapshot \in SnapshotPaths,
        reply \in Replies :
       LET r == handle_manager_setup(fs, skip_prompt, manager_config,
                                     snapshot, reply)
       IN /\ prompts' = Asked(r.prompted, "configure manager")
          /\ IF r.launched
             THEN /\ mgr' = [pc |-> "config", config |-> r.config,
                             snapshot |-> r.snapshot]
                  /\ Goto("manager_script")
             ELSE mgr' = mgr /\ Goto("finish")
  /\ UNCHANGED <<skip_prompt, cli, environ, workspace, res, calls>>
  /\ UNCHANGED <<fs, callVars>>

(* manager_utils.py ends, its restore-snapshot command having ended as     *)
(* `restore`.  handle_manager_setup started the script with subprocess.run *)
(* without check (line 401) and returns.                                   *)
ManagerScriptEnd(err, restore, made) ==
  LET p == ScriptEnd("manager_utils.py", err, 0, restore)
      o == IF p.rc = 0 THEN "ok" ELSE "nonzero"
      r == RunResult(FALSE, o)
  IN /\ calls' = calls \o made \o <<Call("manager_utils.py", o, "")>>
     /\ mgr' = [mgr EXCEPT !.pc = ""]
     /\ IF r.err # ""
        THEN /\ mpc' = "exited"
             /\ procs' = procs \o
                  <<p, ScriptEnd("comfy_config.py", r.err, 1, "")>>
        ELSE /\ mpc' = "finish"
             /\ procs' = Append(procs, p)

\* manager_utils.py main, line 192: setup_manager_config.
ManagerConfigStep ==
  /\ mpc = "manager_script" /\ mgr.pc = "config"
  /\ \E line \in MainLines \cup {[text |-> <<"~", "config.ini">>, pad |-> FALSE]} :
       \E r \in {setup_manager_config(fs, workspace, mgr.config, skip_prompt,
                                     line)} :
          /\ fs' = r.fs
          /\ prompts' = Asked(r.prompted, "manager config path")
          /\ IF r.err # "" THEN ManagerScriptEnd(r.err, "", <<>>)
             ELSE /\ mgr' = [mgr EXCEPT !.pc = "restore"]
                  /\ UNCHANGED <<mpc, procs, calls>>
  /\ UNCHANGED <<skip_prompt, cli, environ, workspace, res, steps>>
  /\ UNCHANGED callVars

\* manager_utils.py main, line 195: restore_snapshot; the script ends.
RestoreSnapshotStep ==
  /\ mpc = "manager_script" /\ mgr.pc = "restore"
  /\ \E line \in MainLines \cup {[text |-> <<"~", "snap.json">>, pad |-> FALSE]},
        rc \in RunCodes :
       \E r \in {restore_snapshot(fs, workspace, mgr.snapshot, skip_prompt,
                                 line, CmdOutcome(rc))} :
          /\ prompts' = Asked(r.prompted, "snapshot")
          /\ ManagerScriptEnd(r.err, r.outcome,
                IF r.invoked
                THEN <<Call("comfy node restore-snapshot", r.outcome,
                            IF r.err # "" THEN "traceback" ELSE r.report)>>
                ELSE <<>>)
  /\ UNCHANGED <<skip_prompt, cli, environ, workspace, res, steps>>
  /\ UNCHANGED <<fs, callVars>>

\* main, line 505: sys.exit(0)
Finish ==
  /\ mpc = "finish"
  /\ MainExit("", 0)
  /\ UNCHANGED <<skip_prompt, cli, environ, workspace, res, prompts, steps,
                 calls, mgr>>
  /\ UNCHANGED <<fs, callVars>>

MainNext ==
  \/ CheckComfyCli
  \/ InstallComfyCli
  \/ ReadComfyPath
  \/ GetComfyWorkspace
  \/ SetupDefaultWorkspace
  \/ SetComfyPath
  \/ SymlinkStep
  \/ GetUserPathStep
  \/ LinkFolderStep
  \/ SymlinkScriptExit
  \/ UserSettingsStep
  \/ ManagerStep
  \/ ManagerConfigStep
  \/ RestoreSnapshotStep
  \/ Finish

SpecMain == MainInit /\ [][MainNext]_vars

---------------------------------------------------------------------------
(* Direct calls of the functions of manager_utils.py and comfy_config.py *)

ManagerTarget == ManagerDir(WS) \o <<"config.ini">>

SnapshotsDir == ManagerDir(WS) \o <<"snapshots">>

\* What the calls find outside the workspace.
FnBase ==
  {<<WS, Dir>>, <<Home, Dir>>, <<RootDir, Dir>>,
   <<Home \o <<"config.ini">>, File("cfg")>>,
   <<Home \o <<"cfgdir">>, Dir>>,
   <<RootDir \o <<"config.ini">>, File("rel")>>,
   <<Home \o <<"snap.json">>, File("snap")>>,
   <<RootDir \o <<"old.json">>, File("relsnap")>>}

ManagerDirs ==
  UserDefaultDirs \cup {<<ManagerDir(WS), Dir>>}

\* What may be under <workspace>/user before a call of manager_utils.py.
ManagerStates ==
  { {},
    {<<WS \o <<"user">>, File("x")>>},
    ManagerDirs \cup {<<ManagerTarget, File("old")>>},
    ManagerDirs \cup {<<ManagerTarget, Dir>>},
    ManagerDirs \cup {<<ManagerTarget, Link(<<"gone">>)>>},
    ManagerDirs \cup {<<ManagerTarget, Link(Home \o <<"config.ini">>)>>},
    ManagerDirs \cup
      {<<ManagerTarget, File("old")>>, <<SnapshotsDir, Dir>>,
       <<SnapshotsDir \o <<"snap.json">>, File("s1")>>,
       <<SnapshotsDir \o <<"old.json">>, Dir>>,
       <<SnapshotsDir \o <<"notes">>, File("n")>>},
    ManagerDirs \cup {<<SnapshotsDir, Dir>>} }

ManagerFS == {FsOf(FnBase \cup a) : a \in ManagerStates}

\* The config paths given or typed: none, a file under "~", a relative file,
\* a missing path, a directory, the target itself.
ConfigPaths ==
  {<<>>, <<"~", "config.ini">>, <<".", "config.ini">>, <<"gone">>,
   <<"~", "cfgdir">>, ManagerTarget}

\* The settings directories of a call of copy_user_settings: one with two
\* JSON files and another file, one whose only *.json entry is a directory.
SettingsBase ==
  FnBase \cup
  {<<Home \o <<"settings">>, Dir>>,
   <<Home \o <<"settings", "comfy.settings.json">>, File("s1")>>,
   <<Home \o <<"settings", "jnodes.settings.json">>, File("s2")>>,
   <<Home \o <<"settings", "notes">>, File("n")>>,
   <<Home \o <<"odd">>, Dir>>,
   <<Home \o <<"odd", "comfy.settings.json">>, Dir>>,
   <<Home \o <<"kept">>, File("k")>>}

\* What may be under <workspace>/user before a call of copy_user_settings.
SettingsTargets ==
  { {},
    UserDefaultDirs,
    UserDefaultDirs \cup
      {<<UserDefault \o <<"comfy.settings.json">>, File("old")>>,
       <<UserDefault \o <<"other.json">>, File("keep")>>},
    UserDefaultDirs \cup {<<UserDefault \o <<"comfy.settings.json">>, Dir>>},
    UserDefaultDirs \cup
      {<<UserDefault \o <<"comfy.settings.json">>,
         Link(Home \o <<"kept">>)>>},
    UserDefaultDirs \cup
      {<<UserDefault \o <<"jnodes.settings.json">>, Link(<<"gone">>)>>},
    {<<WS \o <<"user">>, Dir>>,
     <<UserDefault, Link(Home \o <<"settings">>)>>} }

SettingsFS == {FsOf(SettingsBase \cup a) : a \in SettingsTargets}

FnInit ==
  /\ \E f \in ManagerFS \cup SettingsFS : UtilInit(f)

\* A function was called on the filesystem fs and gave r.
Called(name, args, r) ==
  /\ op' = [name |-> name, comfy_path |-> WS, project_root |-> <<>>,
            args |-> args]
  /\ fs0' = fs /\ prev' = fs /\ fs' = r.fs
  /\ exc' = r.err
  /\ pc' = IF r.err # "" THEN "raised" ELSE "returned"
  /\ UNCHANGED <<todo, asked, hist, pkg>>
  /\ UNCHANGED mainVars

\* setup_manager_config(comfy_path, config_source, skip_prompt) is called.
SetupManagerConfigCall ==
  /\ pc = "start"
  /\ fs \in ManagerFS
  /\ \E config_source \in ConfigPaths, skip \in BOOLEAN,
        line \in [text : ConfigPaths, pad : BOOLEAN] :
       \E r \in {setup_manager_config(fs, WS, config_source, skip, line)} :
         Called("setup_manager_config",
                [source |-> config_source, skip_prompt |-> skip,
                 line |-> line, prompted |-> r.prompted,
                 invoked |-> FALSE, path |-> <<>>], r)

\* What SNAPSHOT_PATH or --snapshot-path can be.
SnapshotArgs ==
  { <<>>, <<"~", "snap.json">>, <<".", "old.json">>, <<"gone">>,
    <<"~", "cfgdir">>, SnapshotsDir \o <<"snap.json">> }

\* What the user can type at the snapshot prompt: nothing, a listed name,
\* a listed name that is a directory, names that are not listed, a path.
SnapshotTyped ==
  { <<>>, <<".", "snap.json">>, <<".", "old.json">>, <<".", "notes">>,
    <<".", "missing.json">>, <<"~", "snap.json">>, <<"~", "cfgdir">> }

\* How the comfy command can end.
RestoreOutcomes == {"ok", "nonzero", "FileNotFoundError"}

\* A call of restore_snapshot.
RestoreSnapshotCall ==
  /\ pc = "start" /\ fs \in ManagerFS
  /\ \E snapshot_path \in SnapshotArgs, skip \in BOOLEAN,
        line \in [text : SnapshotTyped, pad : BOOLEAN],
        outcome \in RestoreOutcomes :
       \E r \in {restore_snapshot(fs, WS, snapshot_path, skip, line, outcome)} :
         Called("restore_snapshot",
                [source |-> snapshot_path, skip_prompt |-> skip,
                 line |-> line, prompted |-> r.prompted,
                 invoked |-> r.invoked, path |-> r.path],
                [fs |-> fs, err |-> r.err])

\* The longest reply typed at a (Y/n) question.
MaxReplyLen == 3

\* The characters of a reply.
ReplyChars == {"n", "N", "y", " "}

\* Every reply of at most MaxReplyLen characters.
TypedReplies == UNION {[1..k -> ReplyChars] : k \in 0..MaxReplyLen}

\* A call of get_user_confirmation.
GetUserConfirmationCall ==
  /\ pc = "start"
  /\ \E skip \in BOOLEAN, reply \in TypedReplies :
       Called("get_user_confirmation",
              [skip_prompt |-> skip, reply |-> reply,
               value |-> get_user_confirmation(skip, reply),
               prompted |-> ConfirmationReads(skip)],
              [fs |-> fs, err |-> ""])

\* What USER_SETTINGS_DIR can be and what the user can type.
SettingsPaths ==
  { <<>>, <<"~", "settings">>, <<"~", "cfgdir">>, <<"~", "odd">>,
    <<"gone">>, <<"~", "kept">>, UserDefault }

\* A call of copy_user_settings.
CopyUserSettingsCall ==
  /\ pc = "start" /\ fs \in SettingsFS
  /\ \E default_settings_dir \in SettingsPaths, skip \in BOOLEAN,
        line \in [text : SettingsPaths, pad : BOOLEAN] :
       \E names \in Orders(GlobJson(fs,
                    AbsPath(SettingsDir(skip, default_settings_dir, line)))) :
         \E r \in {copy_user_settings(fs, WS, skip, default_settings_dir,
                                      line, names)} :
           Called("copy_user_settings",
                  [source |-> default_settings_dir, skip_prompt |-> skip,
                   line |-> line, prompted |-> r.prompted, names |-> names],
                  r)

FnNext ==
  \/ SetupManagerConfigCall
  \/ RestoreSnapshotCall
  \/ GetUserConfirmationCall
  \/ CopyUserSettingsCall

SpecFn == FnInit /\ [][FnNext]_vars

---------------------------------------------------------------------------
(* Properties of the symlink operations and of the package *)

Handled == {hist[i] : i \in DOMAIN hist}

\* The entry the running call handled last.
LastHandled == hist[Len(hist)]

(* The source of a handled entry was there before its turn, as the kind    *)
(* the operation links: any entry for setup_symlinks, a directory for the  *)
(* directory loops, a regular file for a settings file.                    *)
SourcePresent(h) ==
  IF op.name = "setup_symlinks" THEN h.srcKind # "none"
  ELSE IF op.name = "_setup_settings_symlinks" /\ h.name # "workflows"
       THEN h.srcKind = "file"
  ELSE h.srcKind = "dir"

(* C1: in every symlink operation, for every entry whose source exists,    *)
(* what was at the target (file, real directory or link) is removed, and   *)
(* when the operation returns the target is a symbolic link holding the    *)
(* source path.                                                            *)
C1_TargetReplacedByLink ==
  \A h \in Handled :
    SourcePresent(h) =>
      /\ h.tgtKind # "none" => h.stage # "remove"
      /\ pc = "returned" => ReadLink(fs, h.target) = h.source

\* The case C1 fails on: a real directory where a settings file is to go.
C1_DirectoryAtSettingsFile ==
  /\ op.name = "_setup_settings_symlinks" /\ pc = "raised"
  /\ hist # <<>> /\ LastHandled.name = "comfy.settings.json"
  /\ LastHandled.srcKind = "file" /\ LastHandled.tgtKind = "dir"
  /\ exc = "IsADirectoryError"
  /\ IsDir(fs, LastHandled.target)

(* C2: in every symlink operation an entry whose source does not exist     *)
(* changes nothing in the filesystem (nothing is created, the target is    *)
(* left exactly as it was) and only a warning is produced.                 *)
C2_MissingSourceNoMutation ==
  (hist # <<>> /\ LastHandled.srcKind = "none") =>
     fs = prev /\ LastHandled.warned

\* The case C2 fails on: _setup_directory_symlinks has removed the real
\* directory at the target of an entry whose source does not exist, and
\* has warned and made no link.
C2_TargetRemovedSourceMissing ==
  /\ op.name = "_setup_directory_symlinks" /\ hist # <<>>
  /\ LastHandled.srcKind = "none" /\ LastHandled.tgtKind = "dir"
  /\ LastHandled.warned /\ ~LastHandled.linked
  /\ IsDir(prev, LastHandled.target) /\ ~LExists(fs, LastHandled.target)

(* C8: whenever a symlink operation calls symlink_to, no entry (file,      *)
(* directory, link, dangling or not) is stored at the target.              *)
C8_NoCollisionAtCreation ==
  \A h \in Handled : h.linked => ~h.occupied /\ h.err = ""

\* C8's case: a link was made where a dangling link had been.
C8_Witness ==
  \E h \in Handled :
    /\ h.linked /\ h.tgtKind = "link" /\ ~Exists(fs0, h.target)
    /\ ReadLink(fs, h.target) = h.source

(* C10: setup_symlinks answers every prompt before it changes the          *)
(* filesystem, and a folder answered empty with no default is skipped:     *)
(* nothing is done for it.                                                 *)
C10_PromptsBeforeMutation ==
  op.name = "setup_symlinks" =>
    /\ pc = "prompting" => fs = fs0 /\ hist = <<>>
    /\ (fs # fs0 \/ hist # <<>>) => Len(asked) = Len(op.args)
    /\ \A i \in DOMAIN asked :
         (asked[i].default = <<>> /\ asked[i].text = <<>>) =>
            /\ asked[i].source = <<>>
            /\ \A h \in Handled : h.name # asked[i].name

\* C10's case: one folder was skipped and another linked in the same call.
C10_Witness ==
  /\ op.name = "setup_symlinks" /\ pc = "returned"
  /\ \E i \in DOMAIN asked : asked[i].default = <<>> /\ asked[i].text = <<>>
  /\ \E h \in Handled : h.linked /\ h.err = ""
  /\ fs # fs0

(* C9: every name the package imports and lists in __all__ is defined by   *)
(* the module it is imported from, so the import of the package succeeds   *)
(* and binds all of them.                                                  *)
C9_PackageImports ==
  /\ pkg.state # "ImportError"
  /\ pkg.state = "loaded" => PackageAll \subseteq pkg.names

(* C16: after setup_symlinks returns normally, every target it processed  *)
(* is a symbolic link that resolves to an existing directory, whatever     *)
(* source paths were given: the target itself, a path inside the target,   *)
(* the target of another folder of the same call.                          *)
C16_TargetsResolve ==
  (op.name = "setup_symlinks" /\ pc = "returned") =>
    \A h \in Handled : IsSymlink(fs, h.target) /\ IsDir(fs, h.target)

\* The case C16 fails on: the source given for a folder was its own target,
\* a real directory; the call has returned, the directory and what it held
\* are gone and the target is a link to itself.
C16_SelfLink ==
  /\ op.name = "setup_symlinks" /\ pc = "returned"
  /\ \E h \in Handled :
       /\ h.source = h.target /\ h.tgtKind = "dir"
       /\ Exists(fs0, h.target \o <<"old">>)
       /\ ReadLink(fs, h.target) = h.target
       /\ ~Exists(fs, h.target)

---------------------------------------------------------------------------
(* Properties of a run of comfy_config.py *)

\* main has ended; its process is the last one to end.
MainEnded == mpc = "exited"

MainProc == procs[Len(procs)]

AllSteps == <<"symlinks", "settings", "manager">>

\* comfy-cli was found absent and its installation was declined or failed.
InstallFailed == res.install \in {"declined", "failed"}

\* get_comfy_workspace and setup_default_workspace both gave None.
NoWorkspace == res.which = "none" /\ res.dflt = "none"

(* C3: with --skip-prompt no step of the run waits for the user: no prompt *)
(* of main, of the nested setup_symlinks.py or of the nested               *)
(* manager_utils.py is answered.                                           *)
C3_SkipPromptNeverWaits ==
  skip_prompt => prompts = {} /\ asked = <<>>

\* The cases C3 fails on: under --skip-prompt the symlink script has read a
\* path, and main has asked its two confirmations.
C3_PromptsUnderSkipPrompt ==
  /\ skip_prompt /\ asked # <<>>
  /\ {"copy user settings", "configure manager"} \subseteq prompts

(* C4: in each of the three scripts an exception raised during the run is  *)
(* caught at the top level of main, a message goes to the error stream     *)
(* and the process exits with status 1.                                    *)
C4_ExceptionsCaughtAtTop ==
  \A i \in DOMAIN procs :
    procs[i].raised # "" =>
      procs[i].caught /\ procs[i].stderr /\ procs[i].rc = 1

\* The case C4 fails on: an exception has left the main of manager_utils.py
\* and one the main of comfy_config.py, neither caught.
C4_UncaughtInTwoScripts ==
  /\ \E i \in DOMAIN procs :
       /\ procs[i].script = "manager_utils.py"
       /\ procs[i].raised # "" /\ ~procs[i].caught
  /\ \E i \in DOMAIN procs :
       /\ procs[i].script = "setup_symlinks.py"
       /\ procs[i].raised # "" /\ procs[i].caught

(* C5 as stated: main exits with status 1 having run none of the three     *)
(* steps exactly when the installation of comfy-cli was declined or failed *)
(* or no workspace could be established; every other run that reaches the *)
(* end exits with status 0.                                                *)
C5_ExitOneExactly ==
  MainEnded =>
    /\ (MainProc.rc = 1 /\ steps = <<>>) <=> (InstallFailed \/ NoWorkspace)
    /\ (MainProc.raised = "" /\ ~(InstallFailed \/ NoWorkspace))
         => MainProc.rc = 0

(* C5, amended: main exits with status 1 having run none of the three      *)
(* steps exactly when the installation of comfy-cli was declined or        *)
(* failed, or no workspace could be established, or an exception left main *)
(* before the symlink step; every other run that no exception ends exits   *)
(* with status 0.                                                          *)
C5_ExitOneOrEscape ==
  MainEnded =>
    /\ (MainProc.rc = 1 /\ steps = <<>>) <=>
         \/ InstallFailed
         \/ NoWorkspace
         \/ MainProc.raised # "" /\ steps = <<>>
    /\ (MainProc.raised = "" /\ ~(InstallFailed \/ NoWorkspace))
         => MainProc.rc = 0

\* main has ended with status 1 before any step because a comfy command of
\* setup_default_workspace failed under check=True.
C5_Witness ==
  /\ MainEnded /\ MainProc.rc = 1 /\ steps = <<>>
  /\ MainProc.raised = "CalledProcessError" /\ res.dflt = "raised"
  /\ ~InstallFailed /\ ~NoWorkspace

(* C6: every subprocess invocation that fails, by a non-zero return code   *)
(* or a raised process error, is detected and a log message reporting the  *)
(* failure is produced.                                                    *)
C6_FailuresReported ==
  \A i \in DOMAIN calls :
    calls[i].outcome # "ok" => calls[i].report # ""

\* The case C6 fails on: a nested helper script has exited with a non-zero
\* status and main has gone on without a message.
C6_NestedFailureUnreported ==
  \E i \in DOMAIN calls :
    /\ calls[i].cmd \in {"setup_symlinks.py", "manager_utils.py"}
    /\ calls[i].outcome = "nonzero" /\ calls[i].report = ""

\* The symlink script, the manager script, the restore command has failed.
SymlinkScriptFailed ==
  \E i \in DOMAIN procs :
    procs[i].script = "setup_symlinks.py" /\ procs[i].rc # 0

ManagerScriptFailed ==
  \E i \in DOMAIN procs :
    procs[i].script = "manager_utils.py" /\ procs[i].rc # 0

RestoreFailed ==
  \E i \in DOMAIN procs : procs[i].restore = "nonzero"

\* restore_snapshot returned normally from a command that exited non-zero.
RestoreReturns ==
  \A i \in DOMAIN procs :
    procs[i].restore = "nonzero" => procs[i].raised = "" /\ procs[i].rc = 0

(* C7: after a failure of the nested symlink script, of the nested manager *)
(* script or of the restore-snapshot command, restore_snapshot returns     *)
(* normally and main runs every later step in order (symlinks, user        *)
(* settings, manager setup) and exits with status 0.                       *)
C7_FailureOnlySkipsStep ==
  /\ RestoreReturns
  /\ (MainEnded /\ (SymlinkScriptFailed \/ ManagerScriptFailed \/ RestoreFailed))
       => steps = AllSteps /\ MainProc.rc = 0

\* The case C7 fails on: the nested symlink script has failed, and main has
\* ended in the user-settings step with an exception and status 1, the
\* manager step never run.
C7_MainEndsAfterScriptFailure ==
  /\ MainEnded /\ SymlinkScriptFailed
  /\ MainProc.raised # "" /\ MainProc.rc = 1
  /\ steps = <<"symlinks", "settings">>

\* main has run the command `cmd`.
Ran(cmd) == \E i \in DOMAIN calls : calls[i].cmd = cmd

\* COMFY_PATH is set and names a directory that holds main.py.
ComfyPathValid == environ # <<>> /\ ValidWorkspace(fs, environ)

\* A nested helper script is running or has run.
NestedLaunched ==
  \/ mpc \in {"symlink_script", "manager_script"}
  \/ \E i \in DOMAIN procs : procs[i].script # "comfy_config.py"

(* C14: main resolves the workspace in a fixed priority.  A valid          *)
(* COMFY_PATH is used and then neither `comfy which` nor                   *)
(* setup_default_workspace runs; else the valid result of `comfy which` is *)
(* used; setup_default_workspace runs only when both gave nothing.  Once a *)
(* nested helper script is launched, COMFY_PATH is the chosen workspace.   *)
C14_WorkspacePriority ==
  /\ mpc = "which" => ~ComfyPathValid /\ res.which = "" /\ res.dflt = ""
  /\ mpc = "default_ws" =>
       ~ComfyPathValid /\ res.which = "none" /\ res.dflt = ""
  /\ res.dflt # "" => res.which = "none"
  /\ mpc = "set_env" =>
       /\ workspace # <<>>
       /\ res.which = "" =>
            /\ ComfyPathValid /\ workspace = environ
            /\ ~Ran("comfy which") /\ ~Ran("comfy set-default")
            /\ ~Ran("comfy install")
       /\ res.which = "found" =>
            /\ res.dflt = "" /\ ValidWorkspace(fs, workspace)
            /\ ~Ran("comfy set-default") /\ ~Ran("comfy install")
       /\ res.which = "none" => res.dflt = "found"
  /\ NestedLaunched => workspace # <<>> /\ environ = workspace

\* A nested script runs after the default workspace was installed: the
\* invalid COMFY_PATH of the start has become the installed workspace.
C14_Witness ==
  /\ mpc \in {"symlink_script", "manager_script"}
  /\ res.which = "none" /\ res.dflt = "found" /\ Ran("comfy install")
  /\ environ = workspace /\ ValidWorkspace(fs, environ)

\* A nested script runs with the valid COMFY_PATH of the start and no
\* look-up was made.
C14_ComfyPathUsed ==
  /\ mpc = "manager_script" /\ res.which = "" /\ res.dflt = ""
  /\ environ = WS /\ workspace = WS /\ ~Ran("comfy which")

---------------------------------------------------------------------------
(* Properties of the functions called directly *)

(* The source setup_manager_config is to copy: config_source in skip-prompt *)
(* mode; in interactive mode config_source when it is a regular file, else *)
(* the path typed.  <<>> when there is none.                               *)
ResolvedConfig ==
  LET a == op.args
  IN IF a.skip_prompt THEN ExpandUser(a.source)
     ELSE IF a.source # <<>> /\ IsFile(fs0, AbsPath(ExpandUser(a.source)))
          THEN ExpandUser(a.source)
          ELSE ExpandUser(a.line.text)

(* C11: setup_manager_config matches the reference.  When the resolved     *)
(* source is an existing regular file, it returns with                     *)
(* <comfy_path>/user/default/ComfyUI-Manager/config.ini a file holding the *)
(* content the source had, whatever config.ini was there before; when no   *)
(* source is resolved or it is not a regular file, it returns and nothing  *)
(* was created or changed.  A call that fails for want of the target       *)
(* directory (user is a regular file) is left aside.                       *)
C11_ManagerConfigReference ==
  (op.name = "setup_manager_config" /\ pc \in {"returned", "raised"}) =>
    IF ResolvedConfig # <<>> /\ IsFile(fs0, AbsPath(ResolvedConfig))
    THEN (pc = "returned" \/ IsDir(fs0, ManagerDir(WS))) =>
           /\ pc = "returned"
           /\ IsFile(fs, ManagerTarget)
           /\ ReadFile(fs, ManagerTarget) =
                ReadFile(fs0, AbsPath(ResolvedConfig))
    ELSE pc = "returned" /\ fs = fs0

\* The case C11 fails on: a real directory was at config.ini; the call has
\* raised and the directory is still there.
C11_DirectoryAtConfig ==
  /\ op.name = "setup_manager_config" /\ pc = "raised"
  /\ exc = "IsADirectoryError"
  /\ IsFile(fs0, AbsPath(ResolvedConfig))
  /\ IsDir(fs0, ManagerTarget) /\ IsDir(fs, ManagerTarget)

\* setup_manager_config has returned after replacing an old config.ini by a
\* copy of the source, the default in interactive mode.
C11_Replaced ==
  /\ op.name = "setup_manager_config" /\ pc = "returned"
  /\ ~op.args.skip_prompt /\ ~op.args.prompted
  /\ ReadFile(fs0, ManagerTarget) = "old"
  /\ ReadFile(fs, ManagerTarget) = "cfg"

\* restore_snapshot resolved no snapshot path: none was given and, when it
\* asked, nothing was typed.
NoSnapshotResolved ==
  LET a == op.args
  IN a.source = <<>> /\ (a.skip_prompt \/ Strip(a.line) = <<>>)

(* C12: restore_snapshot invokes the comfy command only on a path that was *)
(* an existing regular file when it looked, in every branch, and never     *)
(* when no snapshot path was resolved.                                     *)
C12_RestoreOnlyExistingFile ==
  (op.name = "restore_snapshot" /\ pc \in {"returned", "raised"}) =>
    /\ op.args.invoked =>
         /\ op.args.path # <<>>
         /\ IsFile(fs0, AbsPath(op.args.path))
    /\ NoSnapshotResolved => ~op.args.invoked

\* The command was invoked on a file of the snapshots directory whose name
\* the user typed and that was not among the listed *.json names.
C12_TypedUnlistedFile ==
  /\ op.name = "restore_snapshot" /\ pc = "returned"
  /\ ~op.args.skip_prompt /\ op.args.prompted /\ op.args.invoked
  /\ op.args.path = SnapshotsDir \o <<"notes">>
  /\ Last(op.args.path) \notin get_available_snapshots(fs0, SnapshotsDir)

\* A name was typed that is not in the listed directory: the command was
\* not invoked.
C12_TypedMissing ==
  /\ op.name = "restore_snapshot" /\ pc = "returned"
  /\ op.args.prompted /\ ~op.args.invoked
  /\ get_available_snapshots(fs0, SnapshotsDir) # {}
  /\ Strip(op.args.line) = <<".", "missing.json">>

\* The reply is "n" once trimmed and lower-cased: one n or N with nothing
\* but blanks around it.
RepliesNo(reply) ==
  \E i \in DOMAIN reply :
    /\ reply[i] \in {"n", "N"}
    /\ \A j \in DOMAIN reply \ {i} : reply[j] = " "

(* C13: get_user_confirmation returns True without reading input when     *)
(* skip_prompt is true; otherwise it reads one reply and returns False     *)
(* exactly when the trimmed, lower-cased reply is "n", True for every      *)
(* other reply, the empty one included.                                    *)
C13_ConfirmationUnlessNo ==
  (op.name = "get_user_confirmation" /\ pc = "returned") =>
    IF op.args.skip_prompt
    THEN op.args.value /\ ~op.args.prompted
    ELSE /\ op.args.prompted
         /\ op.args.value = ~RepliesNo(op.args.reply)

\* The user typed " N " and the answer was False.
C13_PaddedUpperNo ==
  /\ op.name = "get_user_confirmation" /\ pc = "returned"
  /\ ~op.args.skip_prompt
  /\ op.args.reply = <<" ", "N", " ">>
  /\ ~op.args.value

\* The user typed nothing and the answer was True.
C13_EmptyReplyYes ==
  /\ op.name = "get_user_confirmation" /\ pc = "returned"
  /\ ~op.args.skip_prompt /\ op.args.reply = <<>> /\ op.args.value

\* The settings directory copy_user_settings is to use: the one typed, else
\* USER_SETTINGS_DIR; only the latter in skip-prompt mode.
ChosenSettings ==
  LET a == op.args
  IN AbsPath(ExpandUser(IF ~a.skip_prompt /\ a.line.text # <<>>
                        THEN a.line.text ELSE a.source))

NoSettingsChosen ==
  LET a == op.args
  IN a.source = <<>> /\ (a.skip_prompt \/ a.line.text = <<>>)

\* The top-level *.json files of the chosen settings directory.
SettingsFiles ==
  {n \in GlobJson(fs0, ChosenSettings) : IsFile(fs0, ChosenSettings \o <<n>>)}

\* The path q holds something else than before the call.
Changed(q) == q \notin DOMAIN fs0 \/ q \notin DOMAIN fs \/ fs[q] # fs0[q]

(* C15: copy_user_settings changes only files of <workspace>/user/default  *)
(* named as a top-level *.json file of the chosen settings directory, each *)
(* getting the content of that file; anything else, the settings directory *)
(* included, is as before (the target directory and its parent may be      *)
(* made).  When it returns, each such file is there with that content.     *)
(* With no settings directory, a missing one or one without JSON file,     *)
(* nothing is created or changed.                                          *)
C15_OnlyNamedSettingsChange ==
  (op.name = "copy_user_settings" /\ pc \in {"returned", "raised"}) =>
    IF \/ NoSettingsChosen
       \/ ~Exists(fs0, ChosenSettings)
       \/ GlobJson(fs0, ChosenSettings) = {}
    THEN pc = "returned" /\ fs = fs0
    ELSE /\ \A q \in DOMAIN fs \cup DOMAIN fs0 :
              Changed(q) =>
                \/ /\ q \in {WS \o <<"user">>, UserDefault}
                   /\ q \notin DOMAIN fs0 /\ fs[q] = Dir
                \/ \E n \in SettingsFiles :
                     /\ q = UserDefault \o <<n>>
                     /\ q \in DOMAIN fs
                     /\ fs[q] = File(ReadFile(fs0, ChosenSettings \o <<n>>))
         /\ pc = "returned" =>
              \A n \in SettingsFiles :
                /\ IsFile(fs, UserDefault \o <<n>>)
                /\ ReadFile(fs, UserDefault \o <<n>>) =
                     ReadFile(fs0, ChosenSettings \o <<n>>)

\* The case C15 fails on: a directory was at the target name; the call has
\* returned, the directory is still there and the copy is inside it.
C15_CopiedIntoDirectory ==
  /\ op.name = "copy_user_settings" /\ pc = "returned"
  /\ "comfy.settings.json" \in SettingsFiles
  /\ IsDir(fs0, UserDefault \o <<"comfy.settings.json">>)
  /\ IsDir(fs, UserDefault \o <<"comfy.settings.json">>)
  /\ Changed(UserDefault \o <<"comfy.settings.json", "comfy.settings.json">>)

\* A symbolic link was at the target name: the call has returned and the
\* file the link leads to, outside the target directory, holds the copy.
C15_WrittenThroughLink ==
  /\ op.name = "copy_user_settings" /\ pc = "returned"
  /\ IsSymlink(fs, UserDefault \o <<"comfy.settings.json">>)
  /\ ReadFile(fs0, Home \o <<"kept">>) = "k"
  /\ ReadFile(fs, Home \o <<"kept">>) = "s1"

\* An old settings file was overwritten and the other file of the target
\* was left alone.
C15_Overwritten ==
  /\ op.name = "copy_user_settings" /\ pc = "returned"
  /\ ReadFile(fs0, UserDefault \o <<"comfy.settings.json">>) = "old"
  /\ ReadFile(fs, UserDefault \o <<"comfy.settings.json">>) = "s1"
  /\ ReadFile(fs, UserDefault \o <<"other.json">>) = "keep"

====
